---- MODULE Spec2Model ----
(***************************************************************************)
(* Commute Timing & Alarm Engine of CommuteTimely.                         *)
(*                                                                         *)
(*   BackgroundCommuteService   (services/backgroundService)               *)
(*   CommuteAlarmManager        (services/alarmManager)                    *)
(*   AlarmManagerModule.java    (native exact alarms)                      *)
(*                                                                         *)
(* JavaScript runs the code on one thread: an async function runs without  *)
(* interruption from one await to the next.  Every action below is one     *)
(* such turn: an external call resolves (or rejects) and the continuation  *)
(* runs up to the next await.                                              *)
(***************************************************************************)
EXTENDS Integers, Sequences, FiniteSets, TLC

\* ---- bounds -------------------------------------------------------------
MaxDay == 2        \* calendar days the clock runs through
MaxSpawns == 2     \* invocations of the service (triggers and API calls)
MaxCalls == 3      \* invocations of the alarm manager (SpecAlarm)

Dest == {"d1", "d2"}
\* getDestinations returns rows in a fixed order (ORDER BY createdAt DESC)
DestOrder == <<"d1", "d2">>

Days == 1..MaxDay
\* at most two invocations of the service are in flight together
TaskIds == {1, 2}
CallIds == 1..MaxCalls

VARIABLES
  \* ---- BackgroundCommuteService ----
  day,                  \* current calendar day (new Date().toISOString() date part)
  lastCalculationDate,  \* AsyncStorage[LAST_CALCULATION_KEY]; 0 = absent
  lastTaskInfo,         \* AsyncStorage[BACKGROUND_TASK_KEY]
  isRunning,            \* BackgroundCommuteService.isRunning
  calculationInterval,  \* a setInterval timer is registered
  appStateSubscription, \* this.appStateSubscription is non-null
  appListeners,         \* number of 'change' listeners registered with AppState
  nextDayTimers,        \* days for which a scheduleNextDayCalculation timeout is armed
  destinations,         \* active rows of the local (SQLite) destinations table
  useCloud,             \* DatabaseService.useCloud
  cloudDests,           \* active rows of the Supabase destinations table
  tasks,                \* the async invocations in flight, by invocation number
  spawned,              \* number of invocations so far
  \* ---- CommuteAlarmManager and the platform ----
  nativeAvailable,      \* Platform.OS === 'android' && AlarmManager
  del,                  \* HomeScreen's delete handler in flight
  deleted,              \* destinations whose deleteDestination call has succeeded
  \* ---- CommuteCalculator ----
  clock,                \* the current instant (new Date()), in seconds of local time
  weatherDelayConfig,   \* CommuteCalculator.weatherDelayConfig, in minutes
  leaveCall,            \* the last calculateLeaveTime call and what became of its result
  delayCall,            \* the last calculateWeatherDelay call
  commuteCalculations,  \* rows of the commute_calculations table
  commuteCalls,         \* the calculateCommute calls, by call number
  lastSaved,            \* by destination and date, the last call that returned a result
  exactAlarms,          \* native AlarmManager registrations, by destination (0 = none)
  pushNotifs,           \* scheduled local notifications, by destination (0 = none)
  scheduledAlarms,      \* CommuteAlarmManager.scheduledAlarms, by destination (0 = none)
  calls,                \* scheduleCommuteAlarm / cancelAlarm invocations in flight
  ncalls,               \* number of alarm-manager invocations so far
  \* ---- observation ----
  sweepsOn,             \* number of sweeps started on the current day (2 = two or more)
  extFault,             \* a storage or database call was rejected
  overlapped,           \* two alarm-manager calls for one destination were in flight together
  ev                    \* the last turn that ran

dbVars == <<destinations, useCloud, cloudDests>>
storeVars == <<commuteCalculations, commuteCalls, lastSaved>>
calcVars == <<clock, weatherDelayConfig, leaveCall, delayCall, storeVars>>
envVars == <<nativeAvailable, calcVars, del, deleted>>
svcVars == <<day, lastCalculationDate, lastTaskInfo, isRunning, calculationInterval,
             appStateSubscription, appListeners, nextDayTimers, dbVars,
             tasks, spawned, sweepsOn, extFault>>
alarmVars == <<exactAlarms, pushNotifs, scheduledAlarms>>
callVars == <<calls, ncalls, overlapped>>
vars == <<svcVars, envVars, alarmVars, callVars, ev>>

\* op: the turn; t: the invocation; d: the destination; res: its outcome;
\* t1, t2: what the two scheduling tiers did (alarm-manager returns only)
Event(op, t, d, res) == [op |-> op, t |-> t, d |-> d, res |-> res, t1 |-> "-", t2 |-> "-"]

\* =========================================================================
\* CommuteAlarmManager: the effect of each step on the three registries
\* =========================================================================
AlarmRec == [exact |-> exactAlarms, push |-> pushNotifs, tracked |-> scheduledAlarms]
NoAlarms == [d \in Dest |-> 0]

SetAlarms(al) ==
  /\ exactAlarms' = al.exact
  /\ pushNotifs' = al.push
  /\ scheduledAlarms' = al.tracked

\* the number of live platform registrations of a destination, both tiers
Live(al, d) == (IF al.exact[d] # 0 THEN 1 ELSE 0) + (IF al.push[d] # 0 THEN 1 ELSE 0)

\* AlarmManagerModule.cancelAlarm: cancels the PendingIntent, or rejects
NativeCancelOutcomes == IF nativeAvailable THEN {"ok", "reject"} ELSE {"absent"}

nativeCancel(al, d, native) ==
  IF native = "ok" THEN [al EXCEPT !.exact[d] = 0] ELSE al

\* CommuteAlarmManager.cancelAlarm, from the resolution of the native call on:
\* a rejection jumps to the catch block, past the two other removals
cancelAlarm(al, d, native) ==
  IF native = "reject"
  THEN al
  ELSE LET a1 == nativeCancel(al, d, native)
       IN [a1 EXCEPT !.push[d] = 0, !.tracked[d] = 0]

\* AlarmManagerModule.scheduleExactAlarm: true = registered, false = refused,
\* throw = promise rejected
Tier1Outcomes == {"true", "false", "throw"}

scheduleExactAlarm(al, d, stamp, t1) ==
  IF t1 = "true" THEN [al EXCEPT !.exact[d] = stamp] ELSE al

\* CommuteAlarmManager.scheduleWithPushNotification
Tier2Outcomes == {"scheduled", "past", "throw"}

scheduleWithPushNotification(al, d, stamp, t2) ==
  IF t2 = "scheduled"
  THEN [al |-> [al EXCEPT !.push[d] = stamp], success |-> TRUE]
  ELSE [al |-> al, success |-> FALSE]

\* lines 62-73 of scheduleCommuteAlarm: track the alarm when a tier succeeded
trackAlarm(al, d, stamp, success) ==
  IF success THEN [al EXCEPT !.tracked[d] = stamp] ELSE al

\* scheduleCommuteAlarm from line 42 on, once cancelAlarm has returned.
\* s1 is what became of Tier 1: "unavailable" (no native module),
\* "notPermitted" (canScheduleExactAlarms gave false), or the outcome of
\* AlarmManager.scheduleExactAlarm; t2 is the outcome Tier 2 has if it is run.
finishSchedule(al, d, stamp, s1, t2) ==
  IF s1 = "throw"
  THEN [al |-> al, ret |-> FALSE, t1 |-> s1, t2 |-> "none"]
  ELSE IF s1 = "true"
  THEN [al |-> trackAlarm(scheduleExactAlarm(al, d, stamp, "true"), d, stamp, TRUE),
        ret |-> TRUE, t1 |-> s1, t2 |-> "none"]
  ELSE LET r == scheduleWithPushNotification(al, d, stamp, t2)
       IN [al |-> trackAlarm(r.al, d, stamp, r.success),
           ret |-> r.success, t1 |-> s1, t2 |-> t2]

\* the outcomes of the external calls of one scheduleCommuteAlarm invocation
SchedOutcomes ==
  [cancel : NativeCancelOutcomes, perm : BOOLEAN, t1 : Tier1Outcomes, t2 : Tier2Outcomes]

Tier1Status(o) ==
  IF o.cancel = "absent" THEN "unavailable"
  ELSE IF ~o.perm THEN "notPermitted"
  ELSE o.t1

\* CommuteAlarmManager.scheduleCommuteAlarm as one call
scheduleCommuteAlarm(al, d, stamp, o) ==
  finishSchedule(cancelAlarm(al, d, o.cancel), d, stamp, Tier1Status(o), o.t2)

SchedEvent(c, d, r) ==
  [op |-> "schedReturn", t |-> c, d |-> d,
   res |-> IF r.ret THEN "true" ELSE "false", t1 |-> r.t1, t2 |-> r.t2]

\* =========================================================================
\* CommuteAlarmManager called directly (HomeScreen), turn by turn
\* =========================================================================
IdleCall == [op |-> "none", d |-> "-", pc |-> "idle"]

InFlight(d) == {c \in CallIds : calls[c].pc # "idle" /\ calls[c].d = d}

BeginCall(c, d) ==
  /\ ncalls < MaxCalls
  /\ c = ncalls + 1
  /\ ncalls' = c
  /\ overlapped' = [overlapped EXCEPT ![d] = @ \/ InFlight(d) # {}]

\* scheduleCommuteAlarm up to its first await (inside cancelAlarm); without the
\* native module nothing is awaited on an external call and the call completes
StartSchedule(c, d) ==
  /\ BeginCall(c, d)
  /\ IF nativeAvailable
     THEN /\ calls' = [calls EXCEPT ![c] = [op |-> "schedule", d |-> d, pc |-> "cancelNative"]]
          /\ ev' = Event("schedStart", c, d, "-")
          /\ UNCHANGED alarmVars
     ELSE \E t2 \in Tier2Outcomes :
            LET r == finishSchedule(cancelAlarm(AlarmRec, d, "absent"), d, c, "unavailable", t2)
            IN /\ SetAlarms(r.al)
               /\ ev' = SchedEvent(c, d, r)
               /\ UNCHANGED calls
  /\ UNCHANGED <<svcVars, envVars>>

\* cancelAllDestinationAlarms -> cancelAlarm
StartCancel(c, d) ==
  /\ BeginCall(c, d)
  /\ IF nativeAvailable
     THEN /\ calls' = [calls EXCEPT ![c] = [op |-> "cancel", d |-> d, pc |-> "cancelNative"]]
          /\ ev' = Event("cancelStart", c, d, "-")
          /\ UNCHANGED alarmVars
     ELSE /\ SetAlarms(cancelAlarm(AlarmRec, d, "absent"))
          /\ ev' = Event("cancelReturn", c, d, "absent")
          /\ UNCHANGED calls
  /\ UNCHANGED <<svcVars, envVars>>

\* AlarmManager.cancelAlarm resolves or rejects; cancelAlarm finishes
CancelNativeResolves(c) ==
  /\ calls[c].pc = "cancelNative"
  /\ \E native \in NativeCancelOutcomes :
       /\ SetAlarms(cancelAlarm(AlarmRec, calls[c].d, native))
       /\ IF calls[c].op = "cancel"
          THEN /\ calls' = [calls EXCEPT ![c] = IdleCall]
               /\ ev' = Event("cancelReturn", c, calls[c].d, native)
          ELSE /\ calls' = [calls EXCEPT ![c].pc = "canSchedule"]
               /\ ev' = Event("cancelDone", c, calls[c].d, native)
  /\ UNCHANGED <<svcVars, envVars, ncalls, overlapped>>

\* canScheduleExactAlarms resolves (it never rejects: its catch returns true)
CanScheduleResolves(c) ==
  /\ calls[c].pc = "canSchedule"
  /\ \E perm \in BOOLEAN :
       IF perm
       THEN /\ calls' = [calls EXCEPT ![c].pc = "tier1"]
            /\ ev' = Event("permitted", c, calls[c].d, "-")
            /\ UNCHANGED alarmVars
       ELSE \E t2 \in Tier2Outcomes :
              LET r == finishSchedule(AlarmRec, calls[c].d, c, "notPermitted", t2)
              IN /\ SetAlarms(r.al)
                 /\ ev' = SchedEvent(c, calls[c].d, r)
                 /\ calls' = [calls EXCEPT ![c] = IdleCall]
  /\ UNCHANGED <<svcVars, envVars, ncalls, overlapped>>

\* AlarmManager.scheduleExactAlarm resolves or rejects; the call returns
Tier1Resolves(c) ==
  /\ calls[c].pc = "tier1"
  /\ \E t1 \in Tier1Outcomes, t2 \in Tier2Outcomes :
       LET r == finishSchedule(AlarmRec, calls[c].d, c, t1, t2)
       IN /\ SetAlarms(r.al)
          /\ ev' = SchedEvent(c, calls[c].d, r)
          /\ calls' = [calls EXCEPT ![c] = IdleCall]
  /\ UNCHANGED <<svcVars, envVars, ncalls, overlapped>>

\* =========================================================================
\* BackgroundCommuteService
\* =========================================================================
\* an invocation is told by the code that follows the sweep in its caller:
\*   "init"    initialize -> checkAndRunDailyCalculation, then setupPeriodicCalculation
\*   "check"   handleAppStateChange or the interval -> checkAndRunDailyCalculation
\*   "force"   forceRecalculation -> removeItem, then runDailyCalculation
\*   "test"    testBackgroundCalculation -> runDailyCalculation
\*   "nextday" the scheduleNextDayCalculation timeout -> runDailyCalculation, then re-arm
NormalKinds == {"init", "check"}
DirectKinds == {"force", "test", "nextday"}
SweepPcs == {"getDestinations", "calc", "sched", "pace", "storeCompleted", "storeFailed"}

NoInfo == [status |-> "none", n |-> 0]
IdleTask == [kind |-> "none", pc |-> "idle", today |-> 0, dests |-> <<>>, idx |-> 0,
             results |-> {}, calcFailed |-> {}, schedCalled |-> {}, wrote |-> "none",
             swept |-> FALSE]

\* the sweeps in progress: entered runDailyCalculation past the isRunning
\* guard and not yet through its finally block
ActiveSweeps == {t \in TaskIds : tasks[t].pc \in SweepPcs}

\* databaseService.getDestinations: the active rows, in table order
ListDestinations(S) == SelectSeq(DestOrder, LAMBDA d : d \in S)

\* a guard that never finds the day calculated
AlreadyCalculatedNever(last, today) == FALSE

\* line 53: lastCalculation === today
AlreadyCalculated(last, today) == last = today

NewTask(kind, pc) == [IdleTask EXCEPT !.kind = kind, !.pc = pc]

\* a new invocation takes the first free place
FreeSlots == {t \in TaskIds : tasks[t].pc = "idle"}

Spawn(t) ==
  /\ spawned < MaxSpawns
  /\ t \in FreeSlots
  /\ \A u \in FreeSlots : t <= u

\* the code after `await this.runDailyCalculation()` in each caller; threw
\* says that runDailyCalculation rejected; timers are the timeouts armed.
\* Sets tasks, calculationInterval and nextDayTimers.
AfterRun(t, rec, threw, timers) ==
  IF rec.kind \in NormalKinds
  THEN IF threw
       THEN \* checkAndRunDailyCalculation's catch; initialize goes on to
            \* setupPeriodicCalculation
            /\ tasks' = [tasks EXCEPT ![t] = IdleTask]
            /\ calculationInterval' = (calculationInterval \/ rec.kind = "init")
            /\ nextDayTimers' = timers
       ELSE /\ tasks' = [tasks EXCEPT ![t] = [rec EXCEPT !.pc = "setItem"]]
            /\ nextDayTimers' = timers
            /\ UNCHANGED calculationInterval
  ELSE /\ tasks' = [tasks EXCEPT ![t] = IdleTask]
       /\ nextDayTimers' = IF rec.kind = "nextday" /\ ~threw /\ day < MaxDay
                           THEN timers \cup {day + 1}
                           ELSE timers
       /\ UNCHANGED calculationInterval

\* a guard that lets every caller in
SweepNeverRefused(running) == FALSE

\* lines 69-72: the non-reentrancy guard
SweepRefused(running) == running

\* runDailyCalculation up to its first await (lines 68-79), called by task t
\* whose record is rec.  Sets tasks, isRunning, sweepsOn, calculationInterval,
\* nextDayTimers.
runDailyCalculation(t, rec, timers) ==
  IF SweepRefused(isRunning)
  THEN /\ AfterRun(t, rec, FALSE, timers)
       /\ UNCHANGED <<isRunning, sweepsOn>>
  ELSE /\ isRunning' = TRUE
       /\ tasks' = [tasks EXCEPT ![t] =
                      [rec EXCEPT !.pc = "getDestinations", !.today = day, !.swept = TRUE]]
       /\ sweepsOn' = IF sweepsOn < 2 THEN sweepsOn + 1 ELSE 2
       /\ nextDayTimers' = timers
       /\ UNCHANGED calculationInterval

\* runDailyCalculation has returned: its locals (destinations, results) are gone
Returned(rec) ==
  [IdleTask EXCEPT !.kind = rec.kind, !.pc = "ended", !.today = rec.today, !.swept = rec.swept]

\* a finally block that is skipped when the catch block itself throws
EndSweepUnlessThrown(t, threw) ==
  /\ isRunning' = (threw /\ isRunning)
  /\ AfterRun(t, Returned(tasks[t]), threw, nextDayTimers)

\* the finally block of runDailyCalculation and the return to its caller
EndSweep(t, threw) ==
  /\ isRunning' = FALSE
  /\ AfterRun(t, Returned(tasks[t]), threw, nextDayTimers)

StartedSweep(t) == tasks[t].pc \notin SweepPcs /\ tasks'[t].pc \in SweepPcs
FinishedSweep(t) == tasks[t].pc \in SweepPcs /\ tasks'[t].pc \notin SweepPcs

\* ---- triggers and API calls ------------------------------------------------

\* initialize(): lines 15-22, up to the await on getItem
Initialize(t) ==
  /\ Spawn(t)
  /\ spawned' = spawned + 1
  /\ appListeners' = appListeners + 1
  /\ appStateSubscription' = TRUE
  /\ tasks' = [tasks EXCEPT ![t] = NewTask("init", "getItem")]
  /\ UNCHANGED <<day, lastCalculationDate, lastTaskInfo, isRunning, calculationInterval,
                 nextDayTimers, dbVars, sweepsOn, extFault>>
  /\ UNCHANGED <<envVars, alarmVars, callVars, ev>>

\* AppState 'change' to 'active': every registered listener runs
\* handleAppStateChange up to the await on getItem
AppBecomesActive ==
  /\ appListeners > 0
  /\ spawned + appListeners <= MaxSpawns
  /\ spawned' = spawned + appListeners
  /\ \E S \in SUBSET FreeSlots :
       /\ Cardinality(S) = appListeners
       /\ \A t \in S, u \in FreeSlots \ S : t < u
       /\ tasks' = [t \in TaskIds |-> IF t \in S THEN NewTask("check", "getItem") ELSE tasks[t]]
  /\ UNCHANGED <<day, lastCalculationDate, lastTaskInfo, isRunning, calculationInterval,
                 appStateSubscription, appListeners, nextDayTimers, dbVars,
                 sweepsOn, extFault>>
  /\ UNCHANGED <<envVars, alarmVars, callVars, ev>>

\* the 6-hour interval fires (lines 42-44)
IntervalFires(t) ==
  /\ calculationInterval
  /\ Spawn(t)
  /\ spawned' = spawned + 1
  /\ tasks' = [tasks EXCEPT ![t] = NewTask("check", "getItem")]
  /\ UNCHANGED <<day, lastCalculationDate, lastTaskInfo, isRunning, calculationInterval,
                 appStateSubscription, appListeners, nextDayTimers, dbVars,
                 sweepsOn, extFault>>
  /\ UNCHANGED <<envVars, alarmVars, callVars, ev>>

\* forceRecalculation(): up to the await on removeItem
ForceRecalculation(t) ==
  /\ Spawn(t)
  /\ spawned' = spawned + 1
  /\ tasks' = [tasks EXCEPT ![t] = NewTask("force", "removeItem")]
  /\ UNCHANGED <<day, lastCalculationDate, lastTaskInfo, isRunning, calculationInterval,
                 appStateSubscription, appListeners, nextDayTimers, dbVars,
                 sweepsOn, extFault>>
  /\ UNCHANGED <<envVars, alarmVars, callVars, ev>>

\* testBackgroundCalculation(): calls runDailyCalculation at once
TestBackgroundCalculation(t) ==
  /\ Spawn(t)
  /\ spawned' = spawned + 1
  /\ runDailyCalculation(t, NewTask("test", "call"), nextDayTimers)
  /\ UNCHANGED <<day, lastCalculationDate, lastTaskInfo, appStateSubscription,
                 appListeners, dbVars, extFault>>
  /\ UNCHANGED <<envVars, alarmVars, callVars, ev>>

\* scheduleNextDayCalculation(): arms a timeout for 6 AM tomorrow
ScheduleNextDayCalculation ==
  /\ day < MaxDay
  /\ day + 1 \notin nextDayTimers
  /\ nextDayTimers' = nextDayTimers \cup {day + 1}
  /\ UNCHANGED <<day, lastCalculationDate, lastTaskInfo, isRunning, calculationInterval,
                 appStateSubscription, appListeners, dbVars, tasks, spawned,
                 sweepsOn, extFault>>
  /\ UNCHANGED <<envVars, alarmVars, callVars, ev>>

\* that timeout fires (lines 160-164): calls runDailyCalculation
NextDayTimerFires(t) ==
  /\ \E target \in nextDayTimers :
       /\ target <= day
       /\ Spawn(t)
       /\ spawned' = spawned + 1
       /\ runDailyCalculation(t, NewTask("nextday", "call"), nextDayTimers \ {target})
  /\ UNCHANGED <<day, lastCalculationDate, lastTaskInfo,
                 appStateSubscription, appListeners, dbVars, extFault>>
  /\ UNCHANGED <<envVars, alarmVars, callVars, ev>>

\* cleanup(): lines 169-183
Cleanup ==
  /\ calculationInterval' = FALSE
  /\ appStateSubscription' = FALSE
  /\ appListeners' = IF appStateSubscription THEN appListeners - 1 ELSE appListeners
  /\ isRunning' = FALSE
  /\ UNCHANGED <<day, lastCalculationDate, lastTaskInfo, nextDayTimers, dbVars,
                 tasks, spawned, sweepsOn, extFault>>
  /\ UNCHANGED <<envVars, alarmVars, callVars, ev>>

\* the calendar day changes
Midnight ==
  /\ day < MaxDay
  /\ day' = day + 1
  /\ sweepsOn' = 0
  /\ UNCHANGED <<lastCalculationDate, lastTaskInfo, isRunning, calculationInterval,
                 appStateSubscription, appListeners, nextDayTimers, dbVars,
                 tasks, spawned, extFault>>
  /\ UNCHANGED <<envVars, alarmVars, callVars, ev>>

\* ---- checkAndRunDailyCalculation --------------------------------------------

\* the end of checkAndRunDailyCalculation; initialize goes on to
\* setupPeriodicCalculation (lines 35-45)
FinishCheck(t) ==
  /\ tasks' = [tasks EXCEPT ![t] = IdleTask]
  /\ calculationInterval' = (calculationInterval \/ tasks[t].kind = "init")

\* getItem resolves: lines 49-59
GetItemResolves(t) ==
  /\ tasks[t].pc = "getItem"
  /\ \/ /\ AlreadyCalculated(lastCalculationDate, day)
        /\ FinishCheck(t)
        /\ UNCHANGED <<isRunning, sweepsOn, nextDayTimers, extFault>>
     \/ /\ ~AlreadyCalculated(lastCalculationDate, day)
        /\ runDailyCalculation(t, [tasks[t] EXCEPT !.today = day], nextDayTimers)
        /\ UNCHANGED extFault
     \/ /\ FinishCheck(t)
        /\ extFault' = TRUE
        /\ UNCHANGED <<isRunning, sweepsOn, nextDayTimers>>
  /\ UNCHANGED <<day, lastCalculationDate, lastTaskInfo, appStateSubscription,
                 appListeners, dbVars, spawned>>
  /\ UNCHANGED <<envVars, alarmVars, callVars, ev>>

\* setItem(LAST_CALCULATION_KEY, today) resolves: line 62
SetItemResolves(t) ==
  /\ tasks[t].pc = "setItem"
  /\ \/ /\ lastCalculationDate' = tasks[t].today
        /\ UNCHANGED extFault
     \/ /\ extFault' = TRUE
        /\ UNCHANGED lastCalculationDate
  /\ FinishCheck(t)
  /\ UNCHANGED <<day, lastTaskInfo, isRunning, appStateSubscription, appListeners,
                 nextDayTimers, dbVars, spawned, sweepsOn>>
  /\ UNCHANGED <<envVars, alarmVars, callVars, ev>>

\* ---- forceRecalculation ---------------------------------------------------

\* removeItem resolves: lines 135-136
RemoveItemResolves(t) ==
  /\ tasks[t].pc = "removeItem"
  /\ \/ /\ lastCalculationDate' = 0
        /\ runDailyCalculation(t, tasks[t], nextDayTimers)
        /\ UNCHANGED extFault
     \/ /\ tasks' = [tasks EXCEPT ![t] = IdleTask]
        /\ extFault' = TRUE
        /\ UNCHANGED <<lastCalculationDate, isRunning, sweepsOn, nextDayTimers,
                       calculationInterval>>
  /\ UNCHANGED <<day, lastTaskInfo, appStateSubscription, appListeners, dbVars,
                 spawned>>
  /\ UNCHANGED <<envVars, alarmVars, callVars, ev>>

\* ---- runDailyCalculation, after the guard ----------------------------------

\* the for loop moves on (lines 93, 108-113): the next destination, or after
\* the last one the completion status is stored
NextDestination(rec) ==
  IF rec.idx < Len(rec.dests)
  THEN [rec EXCEPT !.idx = @ + 1, !.pc = "calc"]
  ELSE [rec EXCEPT !.pc = "storeCompleted", !.wrote = "completed"]

\* a calculateCommute rejection that escapes to the outer catch
CalcFailedAborts(rec) ==
  [rec EXCEPT !.calcFailed = @ \cup {rec.dests[rec.idx]}, !.pc = "storeFailed", !.wrote = "failed"]

\* a calculateCommute rejection is caught inside the loop (lines 105-107)
CalcFailed(rec) == NextDestination([rec EXCEPT !.calcFailed = @ \cup {rec.dests[rec.idx]}])

\* a loop body that calls scheduleCommuteAlarm without awaiting it
CalcSucceededNoAwait(rec) ==
  NextDestination([rec EXCEPT !.results = @ \cup {rec.dests[rec.idx]},
                              !.schedCalled = @ \cup {rec.dests[rec.idx]}])

\* calculateCommute gave a result (lines 96-100): it is kept and
\* scheduleCommuteAlarm is awaited
CalcSucceeded(rec) ==
  [rec EXCEPT !.results = @ \cup {rec.dests[rec.idx]},
              !.schedCalled = @ \cup {rec.dests[rec.idx]}, !.pc = "sched"]

\* DatabaseService.getDestinations: in cloud mode the active Supabase rows,
\* which also replace the local table (updateLocalCacheFromCloud); when the
\* cloud read fails, or in local mode, the active local rows.  cloudOk says
\* whether the cloud read succeeds.
getDestinations(cloudOk) ==
  IF useCloud /\ cloudOk
  THEN [rows |-> cloudDests, useCloud |-> TRUE, local |-> cloudDests]
  ELSE [rows |-> destinations, useCloud |-> FALSE, local |-> destinations]

\* what getDestinations has done to the database service
SetDb(r) ==
  /\ useCloud' = r.useCloud
  /\ destinations' = r.local
  /\ UNCHANGED cloudDests

\* getDestinations resolves or rejects: lines 79-83, 119-127
GetDestinationsResolves(t) ==
  /\ tasks[t].pc = "getDestinations"
  /\ \/ \E cloudOk \in BOOLEAN :
          LET r == getDestinations(cloudOk)
          IN /\ SetDb(r)
             /\ IF r.rows = {}
                THEN EndSweep(t, FALSE)
                ELSE /\ tasks' = [tasks EXCEPT ![t] =
                                    [@ EXCEPT !.dests = ListDestinations(r.rows),
                                              !.idx = 1, !.pc = "calc"]]
                     /\ UNCHANGED <<isRunning, calculationInterval, nextDayTimers>>
             /\ UNCHANGED extFault
     \/ /\ tasks' = [tasks EXCEPT ![t] = [@ EXCEPT !.pc = "storeFailed", !.wrote = "failed"]]
        /\ extFault' = TRUE
        /\ UNCHANGED <<isRunning, calculationInterval, nextDayTimers, dbVars>>
  /\ UNCHANGED <<day, lastCalculationDate, lastTaskInfo, appStateSubscription,
                 appListeners, spawned, sweepsOn>>
  /\ UNCHANGED <<envVars, alarmVars, callVars, ev>>

\* calculateCommute(destination) resolves or rejects: lines 96-100, 105-107
CalcResolves(t) ==
  /\ tasks[t].pc = "calc"
  /\ \/ tasks' = [tasks EXCEPT ![t] = CalcSucceeded(tasks[t])]
     \/ tasks' = [tasks EXCEPT ![t] = CalcFailed(tasks[t])]
  /\ UNCHANGED <<day, lastCalculationDate, lastTaskInfo, isRunning, calculationInterval,
                 appStateSubscription, appListeners, nextDayTimers, dbVars,
                 spawned, sweepsOn, extFault>>
  /\ UNCHANGED <<envVars, alarmVars, callVars, ev>>

\* the registrations a sweep makes are not told apart
SweepStamp == 1

\* scheduleCommuteAlarm(destination, result) returns: lines 100-104
SchedResolves(t) ==
  /\ tasks[t].pc = "sched"
  /\ \E o \in SchedOutcomes :
       LET d == tasks[t].dests[tasks[t].idx]
           r == scheduleCommuteAlarm(AlarmRec, d, SweepStamp, o)
       IN /\ SetAlarms(r.al)
  /\ tasks' = [tasks EXCEPT ![t].pc = "pace"]
  /\ UNCHANGED <<day, lastCalculationDate, lastTaskInfo, isRunning, calculationInterval,
                 appStateSubscription, appListeners, nextDayTimers, dbVars,
                 spawned, sweepsOn, extFault>>
  /\ UNCHANGED <<envVars, callVars, ev>>

\* the one-second pacing delay elapses: line 104
PaceResolves(t) ==
  /\ tasks[t].pc = "pace"
  /\ tasks' = [tasks EXCEPT ![t] = NextDestination(tasks[t])]
  /\ UNCHANGED <<day, lastCalculationDate, lastTaskInfo, isRunning, calculationInterval,
                 appStateSubscription, appListeners, nextDayTimers, dbVars,
                 spawned, sweepsOn, extFault>>
  /\ UNCHANGED <<envVars, alarmVars, callVars, ev>>

\* the record stored at line 113
CompletedInfo(rec) == [status |-> "completed", n |-> Cardinality(rec.results)]
\* the record stored at line 123
FailedInfo == [status |-> "failed", n |-> 0]

\* setItem(BACKGROUND_TASK_KEY, completed) resolves or rejects: lines 113-127
StoreCompletedResolves(t) ==
  /\ tasks[t].pc = "storeCompleted"
  /\ \/ /\ lastTaskInfo' = CompletedInfo(tasks[t])
        /\ EndSweep(t, FALSE)
        /\ UNCHANGED extFault
     \/ /\ tasks' = [tasks EXCEPT ![t] = [@ EXCEPT !.pc = "storeFailed", !.wrote = "failed"]]
        /\ extFault' = TRUE
        /\ UNCHANGED <<lastTaskInfo, isRunning, calculationInterval, nextDayTimers>>
  /\ UNCHANGED <<day, lastCalculationDate, appStateSubscription, appListeners,
                 dbVars, spawned, sweepsOn>>
  /\ UNCHANGED <<envVars, alarmVars, callVars, ev>>

\* setItem(BACKGROUND_TASK_KEY, failed) resolves or rejects: lines 123-130
StoreFailedResolves(t) ==
  /\ tasks[t].pc = "storeFailed"
  /\ \/ /\ lastTaskInfo' = FailedInfo
        /\ EndSweep(t, FALSE)
        /\ UNCHANGED extFault
     \/ /\ EndSweep(t, TRUE)
        /\ extFault' = TRUE
        /\ UNCHANGED lastTaskInfo
  /\ UNCHANGED <<day, lastCalculationDate, appStateSubscription, appListeners,
                 dbVars, spawned, sweepsOn>>
  /\ UNCHANGED <<envVars, alarmVars, callVars, ev>>

\* =========================================================================
\* HomeScreen: deleting a destination, and the reload that follows
\* =========================================================================
IdleDel == [pc |-> "idle", d |-> "-", dests |-> <<>>, idx |-> 0]

\* the destinations the database service lists at this moment
Listed == IF useCloud THEN cloudDests ELSE destinations

\* the user confirms "Delete" for a listed destination: the handler runs up
\* to the await on databaseService.deleteDestination
DeletePressed(d) ==
  /\ del.pc = "idle"
  /\ d \in Listed
  /\ d \notin deleted
  /\ del' = [IdleDel EXCEPT !.pc = "deleteDb", !.d = d]
  /\ UNCHANGED <<svcVars, nativeAvailable, calcVars, deleted, alarmVars, callVars, ev>>

\* DatabaseService.deleteDestination resolves (the local row is deactivated)
\* or rejects; then cancelAllDestinationAlarms runs up to its first await
DeleteDbResolves ==
  /\ del.pc = "deleteDb"
  /\ \/ /\ destinations' = destinations \ {del.d}
        /\ commuteCalculations' =
             {x \in commuteCalculations : x.destinationId # del.d}
        /\ deleted' = deleted \cup {del.d}
        /\ IF nativeAvailable
           THEN /\ del' = [del EXCEPT !.pc = "cancelNative"]
                /\ UNCHANGED alarmVars
           ELSE /\ SetAlarms(cancelAlarm(AlarmRec, del.d, "absent"))
                /\ del' = [del EXCEPT !.pc = "reload"]
        /\ UNCHANGED extFault
     \/ /\ del' = IdleDel
        /\ extFault' = TRUE
        /\ UNCHANGED <<destinations, commuteCalculations, deleted, alarmVars>>
  /\ UNCHANGED <<day, lastCalculationDate, lastTaskInfo, isRunning, calculationInterval,
                 appStateSubscription, appListeners, nextDayTimers, useCloud, cloudDests,
                 tasks, spawned, sweepsOn>>
  /\ UNCHANGED <<nativeAvailable, clock, weatherDelayConfig, leaveCall, delayCall,
                 commuteCalls, lastSaved, callVars, ev>>

\* the native cancel of cancelAllDestinationAlarms resolves or rejects;
\* loadDestinations runs up to the await on getDestinations
DeleteCancelResolves ==
  /\ del.pc = "cancelNative"
  /\ \E native \in NativeCancelOutcomes :
       SetAlarms(cancelAlarm(AlarmRec, del.d, native))
  /\ del' = [del EXCEPT !.pc = "reload"]
  /\ UNCHANGED <<svcVars, nativeAvailable, calcVars, deleted, callVars, ev>>

\* calculateCommutesForAll moves on to the next destination, or ends
NextReload(rec) ==
  IF rec.idx < Len(rec.dests)
  THEN [rec EXCEPT !.idx = @ + 1, !.pc = "calc"]
  ELSE IdleDel

\* loadDestinations: getDestinations resolves or rejects
LoadDestinationsResolves ==
  /\ del.pc = "reload"
  /\ \/ \E cloudOk \in BOOLEAN :
          LET r == getDestinations(cloudOk)
          IN /\ SetDb(r)
             /\ del' = IF r.rows = {}
                       THEN IdleDel
                       ELSE [del EXCEPT !.dests = ListDestinations(r.rows),
                                        !.idx = 1, !.pc = "calc"]
             /\ UNCHANGED extFault
     \/ /\ del' = IdleDel
        /\ extFault' = TRUE
        /\ UNCHANGED dbVars
  /\ UNCHANGED <<day, lastCalculationDate, lastTaskInfo, isRunning, calculationInterval,
                 appStateSubscription, appListeners, nextDayTimers, tasks, spawned, sweepsOn>>
  /\ UNCHANGED <<nativeAvailable, calcVars, deleted, alarmVars, callVars, ev>>

\* calculateCommutesForAll: calculateCommute resolves or rejects
ReloadCalcResolves ==
  /\ del.pc = "calc"
  /\ \/ del' = [del EXCEPT !.pc = "sched"]
     \/ del' = NextReload(del)
  /\ UNCHANGED <<svcVars, nativeAvailable, calcVars, deleted, alarmVars, callVars, ev>>

\* calculateCommutesForAll: scheduleCommuteAlarm returns
ReloadSchedResolves ==
  /\ del.pc = "sched"
  /\ \E o \in SchedOutcomes :
       SetAlarms(scheduleCommuteAlarm(AlarmRec, del.dests[del.idx], SweepStamp, o).al)
  /\ del' = NextReload(del)
  /\ UNCHANGED <<svcVars, nativeAvailable, calcVars, deleted, callVars, ev>>

\* ---- CommuteCalculator: calculateLeaveTime ----------------------------------
\* Instants are seconds of local time counted from a midnight; no change of
\* the UTC offset falls into the days the clock runs through.
DayLength == 86400
BufferSeconds == 300

\* the instants new Date() returns, in increasing order
Instants ==
  { DayLength + 30600,      \* 08:30:00
    DayLength + 32400,      \* 09:00:00
    DayLength + 50400,      \* 14:00:00
    DayLength + 85800,      \* 23:50:00
    2 * DayLength + 300 }   \* 00:05:00 of the next day

\* "HH:MM" is held as its four digits.  HHMM is the formatting
\* (toString().padStart(2, '0') twice), Hours and Minutes the parsing
\* (split(':').map(Number)).
HHMM(h, m) == <<h \div 10, h % 10, m \div 10, m % 10>>
Hours(s) == 10 * s[1] + s[2]
Minutes(s) == 10 * s[3] + s[4]

\* arrival times of the stored destinations, travel times of the routing
\* service and delays of calculateWeatherDelay that the calculator is given
ArrivalTimes == {HHMM(0, 10), HHMM(9, 0), HHMM(23, 50)}
Durations == {0, 1500, 1530}
DelaySeconds == {0, 300, 1200}

\* date.setHours(h, m, 0, 0), date.getHours(), date.getMinutes()
setHours(t, h, m) == (t \div DayLength) * DayLength + 3600 * h + 60 * m
getHours(t) == (t % DayLength) \div 3600
getMinutes(t) == (t % 3600) \div 60

\* arrivalDate of calculateLeaveTime: today's arrival, or tomorrow's when
\* today's is before now
arrivalDate(arrivalTime, now) ==
  LET a == setHours(now, Hours(arrivalTime), Minutes(arrivalTime))
  IN IF a < now THEN a + DayLength ELSE a

calculateLeaveTimeNoBuffer(arrivalTime, durationSeconds, weatherDelaySeconds, now) ==
  LET leaveDate == arrivalDate(arrivalTime, now)
                     - (durationSeconds + weatherDelaySeconds)
  IN HHMM(getHours(leaveDate), getMinutes(leaveDate))

calculateLeaveTime(arrivalTime, durationSeconds, weatherDelaySeconds, now) ==
  LET totalTravelTime == durationSeconds + weatherDelaySeconds + BufferSeconds
      leaveDate == arrivalDate(arrivalTime, now) - totalTravelTime
  IN HHMM(getHours(leaveDate), getMinutes(leaveDate))

calculateTriggerTimeStrict(leaveTime, now) ==
  LET t == setHours(now, Hours(leaveTime), Minutes(leaveTime))
  IN IF t < now THEN t + DayLength ELSE t

\* CommuteAlarmManager.calculateTriggerTime
calculateTriggerTime(leaveTime, now) ==
  LET t == setHours(now, Hours(leaveTime), Minutes(leaveTime))
  IN IF t <= now THEN t + DayLength ELSE t

NoLeaveCall ==
  [stage |-> "none", arrivalTime |-> HHMM(0, 0), durationSeconds |-> 0,
   weatherDelaySeconds |-> 0, now |-> 0, arrivalDate |-> 0,
   leaveTime |-> HHMM(0, 0), trigNow |-> 0, triggerTime |-> 0,
   tier2Now |-> 0, ret |-> FALSE]

\* calculateCommute computes the leave time of a destination
CalculateLeaveTime(arrivalTime, durationSeconds, weatherDelaySeconds) ==
  /\ leaveCall' =
       [stage |-> "calculated", arrivalTime |-> arrivalTime,
        durationSeconds |-> durationSeconds,
        weatherDelaySeconds |-> weatherDelaySeconds, now |-> clock,
        arrivalDate |-> arrivalDate(arrivalTime, clock),
        leaveTime |-> calculateLeaveTime(arrivalTime, durationSeconds,
                                         weatherDelaySeconds, clock),
        trigNow |-> 0, triggerTime |-> 0, tier2Now |-> 0, ret |-> FALSE]
  /\ UNCHANGED <<svcVars, nativeAvailable, clock, weatherDelayConfig, delayCall,
                 storeVars, del, deleted, alarmVars, callVars, ev>>

\* scheduleCommuteAlarm turns the leave time into the instant of the alarm
CalculateTriggerTime ==
  /\ leaveCall.stage = "calculated"
  /\ leaveCall' = [leaveCall EXCEPT !.stage = "scheduled", !.trigNow = clock,
                     !.triggerTime = calculateTriggerTime(leaveCall.leaveTime, clock)]
  /\ UNCHANGED <<svcVars, nativeAvailable, clock, weatherDelayConfig, delayCall,
                 storeVars, del, deleted, alarmVars, callVars, ev>>

tier2OutcomeStrict(triggerTime, now, throws) ==
  IF triggerTime < now THEN "past"
  ELSE IF throws THEN "throw"
  ELSE "scheduled"

\* what scheduleWithPushNotification does with a trigger time at the instant
\* now (lines 86-120); throws says that localNotificationSchedule throws
tier2Outcome(triggerTime, now, throws) ==
  IF triggerTime <= now THEN "past"
  ELSE IF throws THEN "throw"
  ELSE "scheduled"

\* scheduleCommuteAlarm goes on without an exact alarm (none permitted):
\* Tier 2 is run with the trigger time computed before, at the present
\* instant
Tier2Attempt(d) ==
  /\ leaveCall.stage = "scheduled"
  /\ \E throws \in BOOLEAN :
       LET t2 == tier2Outcome(leaveCall.triggerTime, clock, throws)
           r == finishSchedule(AlarmRec, d, SweepStamp, "notPermitted", t2)
       IN /\ SetAlarms(r.al)
          /\ leaveCall' = [leaveCall EXCEPT !.stage = "tier2", !.tier2Now = clock,
                                            !.ret = r.ret]
  /\ UNCHANGED <<svcVars, nativeAvailable, clock, weatherDelayConfig, delayCall,
                 storeVars, del, deleted, callVars, ev>>

\* time passes
ClockAdvances(t) ==
  /\ t > clock
  /\ clock' = t
  /\ UNCHANGED <<svcVars, nativeAvailable, weatherDelayConfig, leaveCall, delayCall,
                 storeVars, del, deleted, alarmVars, callVars, ev>>

\* ---- CommuteCalculator: calculateWeatherDelay ---------------------------------
DEFAULT_WEATHER_DELAYS ==
  [rain |-> 5, snow |-> 15, storm |-> 20, fog |-> 10, heavyRain |-> 10]

\* A description is the sequence of its characters.  The ones below are
\* descriptions of the weather service, and "Thundersnow" for a description
\* that names two categories the service does not combine.
HeavyRain ==
  <<"H", "e", "a", "v", "y", " ", "r", "a", "i", "n">>
LightRain ==
  <<"L", "i", "g", "h", "t", " ", "r", "a", "i", "n">>
ThunderstormHeavyRain ==
  <<"T", "h", "u", "n", "d", "e", "r", "s", "t", "o", "r", "m", " ", "w", "i", "t", "h", " ", "h", "e", "a", "v", "y", " ", "r", "a", "i", "n">>
MixSnowRain ==
  <<"M", "i", "x", " ", "s", "n", "o", "w", "/", "r", "a", "i", "n">>
Thundersnow ==
  <<"T", "h", "u", "n", "d", "e", "r", "s", "n", "o", "w">>
Fog ==
  <<"F", "o", "g">>
ClearSky ==
  <<"C", "l", "e", "a", "r", " ", "s", "k", "y">>

Descriptions ==
  {HeavyRain, LightRain, ThunderstormHeavyRain, MixSnowRain, Thundersnow, Fog, ClearSky}
\* precipitation probabilities on both sides of the two thresholds
Precipitations == {70, 71, 90, 91}
\* wind speeds on both sides of the threshold (a missing windSpeed compares
\* like the lower one)
WindSpeeds == {15, 16}

Weathers ==
  [description : Descriptions, precipitationProbability : Precipitations,
   windSpeed : WindSpeeds]

\* String.prototype.toLowerCase on the capitals that occur
lowerChar(c) ==
  CASE c = "H" -> "h" [] c = "L" -> "l" [] c = "T" -> "t" [] c = "M" -> "m"
    [] c = "F" -> "f" [] c = "C" -> "c" [] OTHER -> c
toLowerCase(s) == [i \in 1..Len(s) |-> lowerChar(s[i])]

\* String.prototype.includes
includes(s, sub) ==
  \E i \in 0..(Len(s) - Len(sub)) : SubSeq(s, i + 1, i + Len(sub)) = sub

Max(a, b) == IF a >= b THEN a ELSE b

\* the precipitation-based delay, in minutes: the first rule that matches
precipitationDelay(condition, precipitationProbability, config) ==
  IF precipitationProbability > 70
  THEN IF includes(condition, <<"s", "n", "o", "w">>)
            \/ includes(condition, <<"b", "l", "i", "z", "z", "a", "r", "d">>)
       THEN config.snow
       ELSE IF includes(condition, <<"s", "t", "o", "r", "m">>)
                 \/ includes(condition, <<"t", "h", "u", "n", "d", "e", "r">>)
       THEN config.storm
       ELSE IF includes(condition, <<"h", "e", "a", "v", "y", " ", "r", "a", "i", "n">>)
                 \/ precipitationProbability > 90
       THEN config.heavyRain
       ELSE IF includes(condition, <<"r", "a", "i", "n">>)
                 \/ includes(condition, <<"d", "r", "i", "z", "z", "l", "e">>)
       THEN config.rain
       ELSE 0
  ELSE 0

\* the visibility rule on top of it
visibilityDelay(condition, delayMinutes, config) ==
  IF includes(condition, <<"f", "o", "g">>) \/ includes(condition, <<"m", "i", "s", "t">>)
  THEN Max(delayMinutes, config.fog)
  ELSE delayMinutes

\* calculateWeatherDelay, in seconds
calculateWeatherDelay(weather, config) ==
  LET condition == toLowerCase(weather.description)
      base == precipitationDelay(condition, weather.precipitationProbability, config)
      delayMinutes == visibilityDelay(condition, base, config)
  IN (IF weather.windSpeed > 15 THEN delayMinutes + 5 ELSE delayMinutes) * 60

\* updateWeatherDelayConfig: { ...this.weatherDelayConfig, ...config }
updateWeatherDelayConfig(old, config) ==
  [k \in DOMAIN old |-> IF k \in DOMAIN config THEN config[k] ELSE old[k]]

\* the partial configurations a caller passes
PartialConfigs == { [rain |-> 30], [heavyRain |-> 25, fog |-> 0] }

NoWeather == [description |-> <<>>, precipitationProbability |-> 0, windSpeed |-> 0]
\* the last call of calculateWeatherDelay and the one before it
NoDelayCall ==
  [calls |-> 0, weather |-> NoWeather, config |-> DEFAULT_WEATHER_DELAYS, delay |-> 0,
   prevWeather |-> NoWeather, prevConfig |-> DEFAULT_WEATHER_DELAYS, prevDelay |-> 0]

\* calculateCommute computes the delay of a weather report
CalculateWeatherDelay(weather) ==
  /\ delayCall' =
       [calls |-> IF delayCall.calls = 0 THEN 1 ELSE 2,
        weather |-> weather, config |-> weatherDelayConfig,
        delay |-> calculateWeatherDelay(weather, weatherDelayConfig),
        prevWeather |-> delayCall.weather, prevConfig |-> delayCall.config,
        prevDelay |-> delayCall.delay]
  /\ UNCHANGED <<svcVars, nativeAvailable, clock, weatherDelayConfig, leaveCall,
                 storeVars, del, deleted, alarmVars, callVars, ev>>

UpdateWeatherDelayConfig(config) ==
  /\ weatherDelayConfig' = updateWeatherDelayConfig(weatherDelayConfig, config)
  /\ UNCHANGED <<svcVars, nativeAvailable, clock, leaveCall, delayCall,
                 storeVars, del, deleted, alarmVars, callVars, ev>>

\* ---- CommuteCalculator: calculateCommute and the commute_calculations table ----
\* A row is [destinationId, date, result]; the result of a call is named by
\* the number of the call.  The id and calculatedAt columns are not followed.
MaxCommutes == 3
CommuteIds == 1..MaxCommutes

IdleCommute == [pc |-> "idle", d |-> "-", date |-> 0, ticket |-> 0]

\* the statements handed to the database so far
Tickets == {commuteCalls[c].ticket : c \in CommuteIds}
NextTicket == 1 + CHOOSE m \in Tickets : \A x \in Tickets : x <= m

RowsOf(rows, d, date) == {x \in rows : x.destinationId = d /\ x.date = date}

InsertOnly(rows, row) == rows \cup {row}

\* INSERT OR REPLACE under UNIQUE(destinationId, date)
InsertOrReplace(rows, row) ==
  (rows \ RowsOf(rows, row.destinationId, row.date)) \cup {row}

\* calculateCommute(destination) is called and awaits fetchDrivingEta
StartCommute(c, d) ==
  /\ commuteCalls[c].pc = "idle"
  /\ \A b \in CommuteIds : b < c => commuteCalls[b].pc # "idle"
  /\ commuteCalls' = [commuteCalls EXCEPT ![c] = [IdleCommute EXCEPT !.pc = "eta", !.d = d]]
  /\ UNCHANGED <<svcVars, nativeAvailable, clock, weatherDelayConfig, leaveCall, delayCall,
                 commuteCalculations, lastSaved, del, deleted, alarmVars, callVars, ev>>

\* fetchDrivingEta resolves and fetchWeatherByLatLng is awaited, or it rejects
\* and calculateCommute throws
EtaResolves(c) ==
  /\ commuteCalls[c].pc = "eta"
  /\ \E ok \in BOOLEAN :
       commuteCalls' = [commuteCalls EXCEPT ![c].pc = IF ok THEN "weather" ELSE "failed"]
  /\ UNCHANGED <<svcVars, nativeAvailable, clock, weatherDelayConfig, leaveCall, delayCall,
                 commuteCalculations, lastSaved, del, deleted, alarmVars, callVars, ev>>

\* fetchWeatherByLatLng resolves: the result is computed and saveCalculation
\* hands the INSERT OR REPLACE for today's date to the database; or it rejects
WeatherResolves(c) ==
  /\ commuteCalls[c].pc = "weather"
  /\ \/ commuteCalls' = [commuteCalls EXCEPT ![c].pc = "saving", ![c].date = day,
                                             ![c].ticket = NextTicket]
     \/ commuteCalls' = [commuteCalls EXCEPT ![c].pc = "failed"]
  /\ UNCHANGED <<svcVars, nativeAvailable, clock, weatherDelayConfig, leaveCall, delayCall,
                 commuteCalculations, lastSaved, del, deleted, alarmVars, callVars, ev>>

\* the database runs its statements in the order it was given them: the
\* oldest one is executed and its call returns the result, or it fails and
\* the call throws
SaveResolves(c) ==
  /\ commuteCalls[c].pc = "saving"
  /\ \A b \in CommuteIds :
       commuteCalls[b].pc = "saving" => commuteCalls[c].ticket <= commuteCalls[b].ticket
  /\ \/ /\ commuteCalculations' =
             InsertOrReplace(commuteCalculations,
                             [destinationId |-> commuteCalls[c].d,
                              date |-> commuteCalls[c].date, result |-> c])
        /\ lastSaved' = [lastSaved EXCEPT ![commuteCalls[c].d][commuteCalls[c].date] = c]
        /\ commuteCalls' = [commuteCalls EXCEPT ![c].pc = "done"]
     \/ /\ commuteCalls' = [commuteCalls EXCEPT ![c].pc = "failed"]
        /\ UNCHANGED <<commuteCalculations, lastSaved>>
  /\ UNCHANGED <<svcVars, nativeAvailable, clock, weatherDelayConfig, leaveCall, delayCall,
                 del, deleted, alarmVars, callVars, ev>>

\* ---- the loop body of a recalculation: calculateCommute, then scheduleCommuteAlarm ----
ResultReturnedOrThrown(call) == call.pc \in {"done", "failed"}

\* `await calculator.calculateCommute(destination)` gave a result: only then
\* does the try block reach scheduleCommuteAlarm (a rejection goes to the
\* catch of the loop body)
ResultReturned(call) == call.pc = "done"

\* scheduleCommuteAlarm(destination, result) is called and returns
ScheduleAfterCommute(c) ==
  /\ ResultReturned(commuteCalls[c])
  /\ \E o \in SchedOutcomes :
       SetAlarms(scheduleCommuteAlarm(AlarmRec, commuteCalls[c].d, SweepStamp, o).al)
  /\ commuteCalls' = [commuteCalls EXCEPT ![c].pc = "scheduled"]
  /\ UNCHANGED <<svcVars, nativeAvailable, clock, weatherDelayConfig, leaveCall, delayCall,
                 commuteCalculations, lastSaved, del, deleted, callVars, ev>>

\* =========================================================================
\* Specifications
\* =========================================================================
\* the state after the modules are loaded; getDestinations lists a prefix of
\* the table order
InitState ==
  /\ day = 1
  /\ lastCalculationDate = 0
  /\ lastTaskInfo = NoInfo
  /\ isRunning = FALSE
  /\ calculationInterval = FALSE
  /\ appStateSubscription = FALSE
  /\ appListeners = 0
  /\ nextDayTimers = {}
  /\ destinations \in {{}, {"d1"}, Dest}
  /\ cloudDests = destinations
  /\ del = IdleDel
  /\ deleted = {}
  /\ weatherDelayConfig = DEFAULT_WEATHER_DELAYS
  /\ leaveCall = NoLeaveCall
  /\ delayCall = NoDelayCall
  /\ commuteCalculations = {}
  /\ commuteCalls = [c \in CommuteIds |-> IdleCommute]
  /\ lastSaved = [d \in Dest |-> [dt \in Days |-> 0]]
  /\ tasks = [t \in TaskIds |-> IdleTask]
  /\ spawned = 0
  /\ exactAlarms = NoAlarms
  /\ pushNotifs = NoAlarms
  /\ scheduledAlarms = NoAlarms
  /\ calls = [c \in CallIds |-> IdleCall]
  /\ ncalls = 0
  /\ sweepsOn = 0
  /\ extFault = FALSE
  /\ overlapped = [d \in Dest |-> FALSE]
  /\ ev = Event("init", 0, "-", "-")

\* on Android (MainApplication registers the AlarmManager native module),
\* with Supabase out of reach: the database service works on the local table
Init ==
  /\ InitState
  /\ clock = DayLength + 30600
  /\ nativeAvailable = TRUE
  /\ useCloud = FALSE

\* on either platform
InitAlarm ==
  /\ InitState
  /\ clock = DayLength + 30600
  /\ nativeAvailable \in BOOLEAN
  /\ useCloud = FALSE

\* on Android, with or without the Supabase connection
InitDelete ==
  /\ InitState
  /\ clock = DayLength + 30600
  /\ nativeAvailable = TRUE
  /\ useCloud \in BOOLEAN

\* the calculator and the alarm time, at any of the instants
InitLeave ==
  /\ InitState
  /\ destinations = Dest
  /\ nativeAvailable = TRUE
  /\ useCloud = FALSE
  /\ clock \in Instants

\* the calculator with the default configuration
InitDelay ==
  /\ InitState
  /\ destinations = Dest
  /\ nativeAvailable = TRUE
  /\ useCloud = FALSE
  /\ clock = DayLength + 30600

\* the recalculation service with its triggers
Next ==
  \/ \E t \in TaskIds : Initialize(t)
  \/ AppBecomesActive
  \/ \E t \in TaskIds : IntervalFires(t)
  \/ \E t \in TaskIds : ForceRecalculation(t)
  \/ \E t \in TaskIds : TestBackgroundCalculation(t)
  \/ Cleanup
  \/ Midnight
  \/ \E t \in TaskIds : GetItemResolves(t)
  \/ \E t \in TaskIds : SetItemResolves(t)
  \/ \E t \in TaskIds : RemoveItemResolves(t)
  \/ \E t \in TaskIds : GetDestinationsResolves(t)
  \/ \E t \in TaskIds : CalcResolves(t)
  \/ \E t \in TaskIds : SchedResolves(t)
  \/ \E t \in TaskIds : PaceResolves(t)
  \/ \E t \in TaskIds : StoreCompletedResolves(t)
  \/ \E t \in TaskIds : StoreFailedResolves(t)

Spec == Init /\ [][Next]_vars

\* the same with the 6 AM timeouts of scheduleNextDayCalculation
NextTimers ==
  \/ Next
  \/ ScheduleNextDayCalculation
  \/ \E t \in TaskIds : NextDayTimerFires(t)

SpecTimers == Init /\ [][NextTimers]_vars

\* the service under its normal triggers only: no forceRecalculation, no
\* testBackgroundCalculation, no cleanup
NextNormal ==
  \/ \E t \in TaskIds : Initialize(t)
  \/ AppBecomesActive
  \/ \E t \in TaskIds : IntervalFires(t)
  \/ Midnight
  \/ \E t \in TaskIds : GetItemResolves(t)
  \/ \E t \in TaskIds : SetItemResolves(t)
  \/ \E t \in TaskIds : GetDestinationsResolves(t)
  \/ \E t \in TaskIds : CalcResolves(t)
  \/ \E t \in TaskIds : SchedResolves(t)
  \/ \E t \in TaskIds : PaceResolves(t)
  \/ \E t \in TaskIds : StoreCompletedResolves(t)
  \/ \E t \in TaskIds : StoreFailedResolves(t)

SpecNormal == Init /\ [][NextNormal]_vars

\* deleting destinations while the service runs forced sweeps
NextDelete ==
  \/ \E t \in TaskIds : ForceRecalculation(t)
  \/ \E t \in TaskIds : RemoveItemResolves(t)
  \/ \E t \in TaskIds : GetDestinationsResolves(t)
  \/ \E t \in TaskIds : CalcResolves(t)
  \/ \E t \in TaskIds : SchedResolves(t)
  \/ \E t \in TaskIds : PaceResolves(t)
  \/ \E t \in TaskIds : StoreCompletedResolves(t)
  \/ \E t \in TaskIds : StoreFailedResolves(t)
  \/ \E d \in Dest : DeletePressed(d)
  \/ DeleteDbResolves
  \/ DeleteCancelResolves
  \/ LoadDestinationsResolves
  \/ ReloadCalcResolves
  \/ ReloadSchedResolves

SpecDelete == InitDelete /\ [][NextDelete]_vars

\* calculateCommute called for the destinations, one call after another or
\* overlapping, over the days
NextStore ==
  \/ \E c \in CommuteIds, d \in Dest : StartCommute(c, d)
  \/ \E c \in CommuteIds : EtaResolves(c)
  \/ \E c \in CommuteIds : WeatherResolves(c)
  \/ \E c \in CommuteIds : SaveResolves(c)
  \/ Midnight

SpecStore == InitDelay /\ [][NextStore]_vars

\* recalculations of the destinations: each calculateCommute followed, when
\* it gives a result, by scheduleCommuteAlarm
NextPipeline ==
  \/ \E c \in CommuteIds, d \in Dest : StartCommute(c, d)
  \/ \E c \in CommuteIds : EtaResolves(c)
  \/ \E c \in CommuteIds : WeatherResolves(c)
  \/ \E c \in CommuteIds : SaveResolves(c)
  \/ \E c \in CommuteIds : ScheduleAfterCommute(c)

SpecPipeline == InitDelay /\ [][NextPipeline]_vars

\* weather delays computed under the configurations a caller sets
NextDelay ==
  \/ \E w \in Weathers : CalculateWeatherDelay(w)
  \/ \E c \in PartialConfigs : UpdateWeatherDelayConfig(c)

SpecDelay == InitDelay /\ [][NextDelay]_vars

\* leave times and alarm times computed as time passes
NextLeave ==
  \/ \E a \in ArrivalTimes, d \in Durations, w \in DelaySeconds :
       CalculateLeaveTime(a, d, w)
  \/ CalculateTriggerTime
  \/ \E d \in Dest : Tier2Attempt(d)
  \/ \E t \in Instants : ClockAdvances(t)

SpecLeave == InitLeave /\ [][NextLeave]_vars

\* the service under its normal triggers, with scheduleNextDayCalculation
\* open to callers
NextMorning ==
  \/ NextNormal
  \/ ScheduleNextDayCalculation
  \/ \E t \in TaskIds : NextDayTimerFires(t)

SpecMorning == Init /\ [][NextMorning]_vars

\* the alarm manager called directly, one destination at a time or overlapping
NextAlarm ==
  \/ \E c \in CallIds, d \in Dest : StartSchedule(c, d)
  \/ \E c \in CallIds, d \in Dest : StartCancel(c, d)
  \/ \E c \in CallIds : CancelNativeResolves(c)
  \/ \E c \in CallIds : CanScheduleResolves(c)
  \/ \E c \in CallIds : Tier1Resolves(c)

SpecAlarm == InitAlarm /\ [][NextAlarm]_vars

\* =========================================================================
\* Properties
\* =========================================================================

\* C1: under normal triggers only (initialize, foreground transition, periodic
\* timer) and with no storage or database call rejected, at most one sweep
\* starts per calendar day.
C1_OneSweepPerDay == ~extFault => sweepsOn <= 1

\* C2 as stated: when getItem resolves in checkAndRunDailyCalculation, equal
\* dates start no sweep and change no persisted state and no alarm; a different
\* or absent date runs a sweep (unless getItem itself was rejected).
C2_GuardRunsSweep ==
  [][\A t \in TaskIds :
       (tasks[t].pc = "getItem" /\ tasks'[t].pc # "getItem") =>
         IF lastCalculationDate = day
         THEN /\ tasks'[t].pc = "idle"
              /\ isRunning' = isRunning
              /\ sweepsOn' = sweepsOn
              /\ lastCalculationDate' = lastCalculationDate
              /\ lastTaskInfo' = lastTaskInfo
              /\ alarmVars' = alarmVars
         ELSE \/ tasks'[t].pc = "getDestinations"
              \/ tasks'[t].pc = "idle" /\ extFault']_vars

\* C2 amended: equal dates start no sweep and change nothing; a different or
\* absent date enters a sweep exactly when isRunning is clear; when isRunning
\* is set the trigger is dropped and goes on to write today's date without
\* having swept (a rejected getItem starts nothing).
C2_GuardRunsSweepUnlessRunning ==
  [][\A t \in TaskIds :
       (tasks[t].pc = "getItem" /\ tasks'[t].pc # "getItem") =>
         IF lastCalculationDate = day
         THEN /\ tasks'[t].pc = "idle"
              /\ isRunning' = isRunning
              /\ sweepsOn' = sweepsOn
              /\ lastCalculationDate' = lastCalculationDate
              /\ lastTaskInfo' = lastTaskInfo
              /\ alarmVars' = alarmVars
         ELSE \/ tasks'[t].pc = "idle" /\ extFault'
              \/ /\ isRunning
                 /\ tasks'[t].pc = "setItem"
                 /\ ~tasks'[t].swept
                 /\ tasks'[t].today = day
                 /\ sweepsOn' = sweepsOn
                 /\ isRunning'
              \/ /\ ~isRunning
                 /\ tasks'[t].pc = "getDestinations"
                 /\ tasks'[t].swept
                 /\ isRunning']_vars

\* a normal trigger found a different date while a sweep was in progress: it
\* is about to write the date without having swept
C2_Witness ==
  \E t \in TaskIds :
    /\ tasks[t].kind \in NormalKinds
    /\ tasks[t].pc = "setItem"
    /\ ~tasks[t].swept

\* C3: in every reachable state at most one sweep is in progress.
C3_OneSweepInProgress == Cardinality(ActiveSweeps) <= 1

\* C4 as stated: when removeItem resolves in forceRecalculation, the date guard
\* is cleared and a sweep is entered (unless removeItem itself was rejected).
C4_ForceAlwaysSweeps ==
  [][\A t \in TaskIds :
       (tasks[t].pc = "removeItem" /\ tasks'[t].pc # "removeItem") =>
         \/ lastCalculationDate' = 0 /\ tasks'[t].pc = "getDestinations"
         \/ /\ extFault'
            /\ tasks'[t].pc = "idle"
            /\ lastCalculationDate' = lastCalculationDate]_vars

\* C4 amended: when removeItem resolves, forceRecalculation has cleared the
\* date guard; it enters a sweep exactly when isRunning is clear, whether or
\* not a sweep ran today, and is dropped without sweeping when isRunning is
\* set (a rejected removeItem clears nothing and starts nothing).
C4_ForceSweepsUnlessRunning ==
  [][\A t \in TaskIds :
       (tasks[t].pc = "removeItem" /\ tasks'[t].pc # "removeItem") =>
         \/ /\ extFault'
            /\ tasks'[t].pc = "idle"
            /\ lastCalculationDate' = lastCalculationDate
         \/ /\ lastCalculationDate' = 0
            /\ IF isRunning
               THEN /\ tasks'[t].pc = "idle"
                    /\ sweepsOn' = sweepsOn
                    /\ isRunning'
               ELSE /\ tasks'[t].pc = "getDestinations"
                    /\ tasks'[t].swept
                    /\ isRunning']_vars

\* a forced sweep is running on a day on which a sweep had already started,
\* and the date guard is cleared
C4_Witness ==
  \E t \in TaskIds :
    /\ tasks[t].kind = "force"
    /\ tasks[t].pc \in SweepPcs
    /\ sweepsOn = 2
    /\ lastCalculationDate = 0

\* C5: a rejected calculateCommute does not abort the sweep: the loop goes on
\* to the next destination (or to the status write after the last one); at the
\* status write every destination has been visited, the alarm manager has been
\* called for exactly the destinations that succeeded, and the record stored
\* is `completed` with the number of destinations minus the failed ones.
C5_FailureIsolated ==
  [][\A t \in TaskIds :
       LET rec == tasks[t]
           nxt == tasks'[t]
           more == rec.idx < Len(rec.dests)
       IN /\ (rec.pc = "calc" /\ nxt # rec /\ nxt.results = rec.results) =>
               /\ nxt.pc = IF more THEN "calc" ELSE "storeCompleted"
               /\ nxt.idx = IF more THEN rec.idx + 1 ELSE rec.idx
               /\ nxt.dests = rec.dests
               /\ isRunning' = isRunning
          /\ (nxt.pc = "storeCompleted") =>
               /\ nxt.idx = Len(nxt.dests)
               /\ nxt.schedCalled = nxt.results
               /\ nxt.results = {nxt.dests[i] : i \in 1..Len(nxt.dests)} \ nxt.calcFailed
          /\ (rec.pc = "storeCompleted" /\ nxt.pc \notin SweepPcs) =>
               lastTaskInfo' = [status |-> "completed",
                                n |-> Len(rec.dests) - Cardinality(rec.calcFailed)]]_vars

\* a sweep over two destinations, one of which failed, has stored its record
C5_Witness ==
  /\ Cardinality(destinations) = 2
  /\ lastTaskInfo = [status |-> "completed", n |-> 1]

\* C6: every sweep ends through a write of the status record (its finally
\* block is reached from one of the two setItem calls).
C6_SweepWritesRecord ==
  [][\A t \in TaskIds :
       FinishedSweep(t) => tasks[t].pc \in {"storeCompleted", "storeFailed"}]_vars

\* C7: when an invocation that ran a sweep returns, and no storage call was
\* rejected, lastCalculationDate is the calendar day of that sweep.
C7_DateWrittenAfterSweep ==
  [][\A t \in TaskIds :
       (/\ tasks[t].kind \in NormalKinds \cup {"force"}
        /\ tasks[t].swept /\ tasks[t].pc # "idle" /\ tasks'[t].pc = "idle"
        /\ ~extFault') =>
         lastCalculationDate' = tasks[t].today]_vars

\* C8: with the calls for a destination executed one after another, between
\* calls the destination has at most one live registration over both tiers,
\* and exactly one right after a scheduleCommuteAlarm that returned true.
C8_AtMostOneLive ==
  \A d \in Dest :
    (~overlapped[d] /\ InFlight(d) = {}) =>
      /\ Live(AlarmRec, d) <= 1
      /\ (ev.op = "schedReturn" /\ ev.d = d /\ ev.res = "true") => Live(AlarmRec, d) = 1

\* C9: a scheduleCommuteAlarm call in which Tier 1 did not register an alarm
\* (unavailable, not permitted, false, or throws) has attempted Tier 2.
C9_Tier2Attempted ==
  (ev.op = "schedReturn" /\ ev.t1 # "true") => ev.t2 # "none"

\* C10: a scheduleCommuteAlarm call in which no tier registered an alarm
\* returns false and leaves the destination without live registration and
\* without tracked entry (calls for the destination one after another).
C10_BothFailUnscheduled ==
  (ev.op = "schedReturn" /\ ev.t1 # "true" /\ ev.t2 # "scheduled" /\ ~overlapped[ev.d]) =>
    /\ ev.res = "false"
    /\ Live(AlarmRec, ev.d) = 0
    /\ scheduledAlarms[ev.d] = 0

\* C11: after cancelAlarm has returned (called by itself or from inside
\* scheduleCommuteAlarm, calls for the destination one after another), the
\* destination has no live registration in either tier and no tracked entry.
C11_CancelRemovesAll ==
  (ev.op \in {"cancelReturn", "cancelDone"} /\ ~overlapped[ev.d]) =>
    /\ Live(AlarmRec, ev.d) = 0
    /\ scheduledAlarms[ev.d] = 0

\* C12: once a destination has been deleted, the delete handler has returned
\* and no sweep is in flight, no alarm is live for it and getDestinations no
\* longer lists it (no storage or database call having been rejected).
C12_DeletedStaysUnscheduled ==
  \A d \in deleted :
    (del.pc = "idle" /\ ActiveSweeps = {} /\ ~extFault) =>
      /\ Live(AlarmRec, d) = 0
      /\ d \notin Listed

\* C13: the leaveTime that calculateLeaveTime returns is strictly earlier in
\* the day than the arrivalTime it was given (both as times of one day),
\* for every arrival time and all non-negative travel and delay seconds.
C13_LeaveBeforeArrival ==
  leaveCall.stage # "none" =>
    60 * Hours(leaveCall.leaveTime) + Minutes(leaveCall.leaveTime)
      < 60 * Hours(leaveCall.arrivalTime) + Minutes(leaveCall.arrivalTime)

C15_RollsToNextDay ==
  LET today == (leaveCall.now \div DayLength) * DayLength
      arrival == today + 3600 * Hours(leaveCall.arrivalTime)
                       + 60 * Minutes(leaveCall.arrivalTime)
      total == leaveCall.durationSeconds + leaveCall.weatherDelaySeconds + 300
      leave == arrival + DayLength - total
  IN (leaveCall.stage # "none" /\ arrival <= leaveCall.now) =>
       /\ leaveCall.arrivalDate = arrival + DayLength
       /\ (leaveCall.stage = "scheduled" /\ clock = leaveCall.now) =>
            leaveCall.triggerTime = leave - (leave % 60)

\* C16: calculateWeatherDelay returns the largest of the delays of all the
\* category rules that match the report (snow, storm, heavy rain and rain
\* under a precipitation probability above 70, fog), zero when none does,
\* plus 5 minutes when the wind speed is above 15.
C16_MaxOfMatchingRules ==
  delayCall.calls > 0 =>
    LET w == delayCall.weather
        cfg == delayCall.config
        c == toLowerCase(w.description)
        p == w.precipitationProbability
        matching ==
          {0}
          \cup (IF p > 70 /\ (includes(c, <<"s", "n", "o", "w">>)
                               \/ includes(c, <<"b", "l", "i", "z", "z", "a", "r", "d">>))
                THEN {cfg.snow} ELSE {})
          \cup (IF p > 70 /\ (includes(c, <<"s", "t", "o", "r", "m">>)
                               \/ includes(c, <<"t", "h", "u", "n", "d", "e", "r">>))
                THEN {cfg.storm} ELSE {})
          \cup (IF p > 70 /\ (includes(c, <<"h", "e", "a", "v", "y", " ", "r", "a", "i", "n">>)
                               \/ p > 90)
                THEN {cfg.heavyRain} ELSE {})
          \cup (IF p > 70 /\ (includes(c, <<"r", "a", "i", "n">>)
                               \/ includes(c, <<"d", "r", "i", "z", "z", "l", "e">>))
                THEN {cfg.rain} ELSE {})
          \cup (IF includes(c, <<"f", "o", "g">>) \/ includes(c, <<"m", "i", "s", "t">>)
                THEN {cfg.fog} ELSE {})
        largest == CHOOSE m \in matching : \A x \in matching : x <= m
    IN delayCall.delay = 60 * (largest + IF w.windSpeed > 15 THEN 5 ELSE 0)

\* C17: a description that contains "heavy rain" gives a delay of at least
\* config.heavyRain minutes whatever the precipitation probability, and a
\* precipitation probability above 90 gives at least that whatever the
\* description.
C17_HeavyRainFloor ==
  delayCall.calls > 0 =>
    LET w == delayCall.weather
        c == toLowerCase(w.description)
    IN ( \/ includes(c, <<"h", "e", "a", "v", "y", " ", "r", "a", "i", "n">>)
         \/ w.precipitationProbability > 90 )
         => delayCall.delay >= 60 * delayCall.config.heavyRain

\* C18: of two calls with the same description containing "rain", the same
\* wind speed and the same configuration, the first with a precipitation
\* probability of at most 90 and the second above 90, the second returns no
\* smaller a delay.
C18_MonotoneInPrecipitation ==
  ( /\ delayCall.calls = 2
    /\ delayCall.weather.description = delayCall.prevWeather.description
    /\ includes(toLowerCase(delayCall.weather.description), <<"r", "a", "i", "n">>)
    /\ delayCall.weather.windSpeed = delayCall.prevWeather.windSpeed
    /\ delayCall.config = delayCall.prevConfig
    /\ delayCall.prevWeather.precipitationProbability <= 90
    /\ delayCall.weather.precipitationProbability > 90 )
    => delayCall.delay >= delayCall.prevDelay

\* C19: after any sequence of calculateCommute calls the table holds, for
\* every destination and date, no row when no call has returned a result
\* for the pair, and otherwise exactly one row, holding the result of the
\* last call that returned one.
C19_OneRowLastWriteWins ==
  \A d \in Dest, dt \in Days :
    LET rows == {x \in commuteCalculations : x.destinationId = d /\ x.date = dt}
    IN /\ Cardinality(rows) <= 1
       /\ \A x \in rows : x.result = lastSaved[d][dt]
       /\ lastSaved[d][dt] # 0 => rows # {}

C19_Witness ==
  \E a, b \in CommuteIds :
    /\ commuteCalls[a].pc = "done" /\ commuteCalls[b].pc = "done"
    /\ commuteCalls[a].d = commuteCalls[b].d
    /\ commuteCalls[a].date = commuteCalls[b].date
    /\ commuteCalls[a].ticket < commuteCalls[b].ticket
    /\ {x \in commuteCalculations : /\ x.destinationId = commuteCalls[b].d
                                    /\ x.date = commuteCalls[b].date}
         = {[destinationId |-> commuteCalls[b].d, date |-> commuteCalls[b].date,
             result |-> b]}

\* C20: once initialize has completed (the 6-hour interval is set) and no
\* storage or database call has been rejected, a timeout for 06:00 of the
\* next morning is armed, so that a sweep is triggered every morning.
C20_MorningSweepArmed ==
  (calculationInterval /\ ~extFault /\ day < MaxDay) => (day + 1) \in nextDayTimers

\* C21: a normal trigger whose guard check finds a sweep in progress
\* (isRunning set when its getItem resolves with a different date) starts no
\* sweep, and until it returns it changes neither lastCalculationDate nor
\* lastTaskInfo nor any alarm.
C21_DroppedTriggerChangesNothing ==
  [][\A t \in TaskIds :
       /\ ( /\ tasks[t].kind \in NormalKinds
            /\ tasks[t].pc = "getItem" /\ tasks'[t].pc # "getItem"
            /\ isRunning )
            => /\ tasks'[t].pc \notin SweepPcs
               /\ sweepsOn' = sweepsOn
               /\ lastCalculationDate' = lastCalculationDate
               /\ lastTaskInfo' = lastTaskInfo
               /\ alarmVars' = alarmVars
       /\ ( /\ tasks[t].kind \in NormalKinds
            /\ tasks[t].pc = "setItem" /\ ~tasks[t].swept
            /\ tasks'[t].pc # "setItem" )
            => /\ lastCalculationDate' = lastCalculationDate
               /\ lastTaskInfo' = lastTaskInfo
               /\ alarmVars' = alarmVars]_vars

\* C22: when Tier 2 is run with a trigger time at or before the current
\* instant, it registers no notification (the notifications stay as they
\* were) and the call reports failure.
C22_Tier2RefusesPast ==
  [][( /\ leaveCall.stage = "scheduled"
       /\ leaveCall'.stage = "tier2"
       /\ leaveCall.triggerTime <= clock )
       => /\ pushNotifs' = pushNotifs
          /\ ~leaveCall'.ret]_vars

\* Tier 2 was run at the very instant of the trigger time and refused
C22_Witness ==
  /\ leaveCall.stage = "tier2"
  /\ leaveCall.triggerTime = leaveCall.tier2Now
  /\ ~leaveCall.ret
  /\ \A d \in Dest : pushNotifs[d] = 0

\* C27: the trigger time that calculateTriggerTime computes falls on the
\* leave time's hour and minute, is strictly later than the instant of the
\* computation and at most 24 hours later: today's occurrence of the leave
\* time when that is still to come, tomorrow's otherwise.
C27_TriggerWithinNextDay ==
  leaveCall.stage \in {"scheduled", "tier2"} =>
    LET now == leaveCall.trigNow
        today == (now \div DayLength) * DayLength
                   + 3600 * Hours(leaveCall.leaveTime) + 60 * Minutes(leaveCall.leaveTime)
    IN /\ leaveCall.triggerTime > now
       /\ leaveCall.triggerTime <= now + DayLength
       /\ leaveCall.triggerTime = IF today > now THEN today ELSE today + DayLength

\* the trigger time was computed at the very instant of the leave time
C27_Witness ==
  /\ leaveCall.stage = "scheduled"
  /\ leaveCall.trigNow % DayLength
       = 3600 * Hours(leaveCall.leaveTime) + 60 * Minutes(leaveCall.leaveTime)
  /\ leaveCall.triggerTime = leaveCall.trigNow + DayLength

\* C23: when the travel-time fetch or the weather fetch of a calculateCommute
\* call fails, the call throws; in that step and ever after no row is
\* written for the call, and scheduleCommuteAlarm is not called for it: the
\* step leaves the table and every alarm as they were.
C23_FetchFailureLeavesAlarm ==
  [][\A c \in CommuteIds :
       /\ ( /\ commuteCalls[c].pc \in {"eta", "weather"}
            /\ commuteCalls'[c].pc \notin {"eta", "weather", "saving"} )
            => /\ commuteCalls'[c].pc = "failed"
               /\ commuteCalculations' = commuteCalculations
               /\ alarmVars' = alarmVars
       /\ commuteCalls[c].pc = "failed"
            => /\ commuteCalls'[c] = commuteCalls[c]
               /\ \A x \in commuteCalculations' : x.result # c]_vars

\* the weather fetch of a call failed for a destination that had an alarm
\* from an earlier call, and the alarm is still there
C23_Witness ==
  \E c \in CommuteIds :
    /\ commuteCalls[c].pc = "failed"
    /\ commuteCalls[c].ticket = 0
    /\ scheduledAlarms[commuteCalls[c].d] # 0
    /\ Live(AlarmRec, commuteCalls[c].d) = 1

\* C24: within one sweep the destinations are taken one after another: the
\* loop moves to the next destination only when the calculation of the
\* present one has failed, or has succeeded and its scheduleCommuteAlarm call
\* has returned; scheduleCommuteAlarm is called only for the present
\* destination, after its calculation has given a result.
C24_OneDestinationAtATime ==
  [][\A t \in TaskIds :
       LET a == tasks[t]
           b == tasks'[t]
       IN (a.pc \in SweepPcs /\ b.pc \in SweepPcs) =>
            /\ b.idx \in {a.idx, a.idx + 1}
            /\ (b.idx = a.idx + 1 /\ a.idx >= 1) =>
                 \/ a.pc = "pace"
                 \/ a.pc = "calc" /\ a.dests[a.idx] \in b.calcFailed
            /\ (b.pc = "pace" /\ a.pc # "pace") => a.pc = "sched"
            /\ (b.pc = "sched" /\ a.pc # "sched") =>
                 /\ a.pc = "calc"
                 /\ b.idx = a.idx
                 /\ a.dests[a.idx] \in b.results
            /\ b.schedCalled # a.schedCalled =>
                 /\ b.pc = "sched"
                 /\ b.schedCalled = a.schedCalled \cup {a.dests[a.idx]}]_vars

\* a sweep over two destinations awaits the scheduling of the second, the
\* first one's having been called before
C24_Witness ==
  \E t \in TaskIds :
    /\ tasks[t].pc = "sched"
    /\ Len(tasks[t].dests) = 2
    /\ tasks[t].idx = 2
    /\ tasks[t].schedCalled = {tasks[t].dests[1], tasks[t].dests[2]}

\* =========================================================================
\* A registered alarm goes off
\* =========================================================================
\* CommuteAlarmManager.getAlarmForDestination: the tracked record, 0 standing
\* for undefined; a record is always stored with isActive: true
getAlarmForDestination(tracked, d) == tracked[d]

\* The platform delivers a one-shot registration of destination d at its
\* trigger time and drops it: AlarmReceiver.onReceive shows the notification
\* (the local notification of Tier 2 is shown by the library); neither calls
\* into the alarm manager's map.
AlarmFires(d) ==
  /\ \/ /\ exactAlarms[d] # 0
        /\ exactAlarms' = [exactAlarms EXCEPT ![d] = 0]
        /\ UNCHANGED pushNotifs
     \/ /\ pushNotifs[d] # 0
        /\ pushNotifs' = [pushNotifs EXCEPT ![d] = 0]
        /\ UNCHANGED exactAlarms
  /\ UNCHANGED <<scheduledAlarms, svcVars, envVars, callVars, ev>>

NextFiring ==
  \/ NextAlarm
  \/ \E d \in Dest : AlarmFires(d)

SpecFiring == InitAlarm /\ [][NextFiring]_vars

\* C25: once the scheduled alarm of a destination has gone off, the alarm
\* manager reports no active alarm for that destination.
C25_FiredAlarmNotReported ==
  [][\A d \in Dest :
       (AlarmFires(d) /\ Live(AlarmRec, d) = 1 /\ InFlight(d) = {})
         => getAlarmForDestination(scheduledAlarms', d) = 0]_vars

\* C26: when scheduleCommuteAlarm calls for one destination have overlapped
\* and all have returned, the destination does not hold both an exact alarm
\* and a scheduled local notification.
C26_OverlapLeavesOneAlarm ==
  \A d \in Dest :
    (overlapped[d] /\ InFlight(d) = {}) =>
      ~(exactAlarms[d] # 0 /\ pushNotifs[d] # 0)

\* C28: when a sweep that ran alone stores its "completed" record, the
\* destinationsProcessed of the record is the number of destinations of the
\* sweep for which an alarm is scheduled; one for which both tiers failed is
\* not counted.
C28_ProcessedCountsScheduled ==
  [][\A t \in TaskIds :
       ( /\ tasks[t].pc = "storeCompleted"
         /\ tasks'[t].pc \notin SweepPcs
         /\ ActiveSweeps = {t}
         /\ sweepsOn = 1
         /\ ~extFault' )
         => lastTaskInfo'.n =
              Cardinality({d \in tasks[t].results : scheduledAlarms[d] # 0})]_vars

\* =========================================================================
\* Every external call settles
\* =========================================================================
\* the next await of the sweep of task t resolves or rejects
SweepStep(t) ==
  \/ GetDestinationsResolves(t)
  \/ CalcResolves(t)
  \/ SchedResolves(t)
  \/ PaceResolves(t)
  \/ StoreCompletedResolves(t)
  \/ StoreFailedResolves(t)

\* the normal triggers, with every promise a sweep awaits settling in the end
SpecSettling ==
  /\ Init
  /\ [][NextNormal]_vars
  /\ \A t \in TaskIds : WF_vars(SweepStep(t))

\* C29: isRunning is true only while a sweep is in progress, and every sweep
\* in progress ends (completed, no destinations, or failed) with isRunning
\* false, every call it awaits resolving or rejecting in the end.
C29_SweepEndsNotRunning ==
  /\ [](isRunning => ActiveSweeps # {})
  /\ \A t \in TaskIds :
       (tasks[t].pc \in SweepPcs) ~> (tasks[t].pc \notin SweepPcs /\ ~isRunning)

\* a sweep has failed at its status write and the flag is down
C29_Witness ==
  /\ ~isRunning
  /\ ActiveSweeps = {}
  /\ extFault
  /\ \E t \in TaskIds : tasks[t].swept /\ tasks[t].pc \notin SweepPcs

\* C30: however often initialize() has been called, at most one foreground
\* listener is registered, and none is left once cleanup() has dropped the
\* subscription.
C30_OneListener ==
  /\ appListeners <= 1
  /\ ~appStateSubscription => appListeners = 0

TypeOK ==
  /\ day \in Days
  /\ lastCalculationDate \in 0..MaxDay
  /\ isRunning \in BOOLEAN
  /\ spawned \in 0..MaxSpawns
  /\ ncalls \in 0..MaxCalls
  /\ useCloud \in BOOLEAN
  /\ deleted \subseteq Dest
  /\ clock \in Instants
  /\ leaveCall.stage \in {"none", "calculated", "scheduled", "tier2"}
  /\ delayCall.calls \in 0..2
  /\ \A c \in CommuteIds :
       commuteCalls[c].pc \in {"idle", "eta", "weather", "saving", "done", "failed",
                               "scheduled"}
  /\ \A x \in commuteCalculations : x.destinationId \in Dest /\ x.date \in Days

====
